---- MODULE Spec2Model ----
(***************************************************************************)
(* Courseware access control of lms/djangoapps/courseware/access.py.       *)
(*                                                                         *)
(* has_access(user, action, obj, course_key) and its helpers are pure      *)
(* functions of their arguments and of what the collaborators answer (role *)
(* directory, masquerade state, feature flags, request hostname, clock).   *)
(* The collaborators' answers are the state; each action is one call of a  *)
(* function of access.py, recorded with its outcome in `call`.             *)
(*                                                                         *)
(* Python values: a verdict or an exception is one of the strings of       *)
(* Outcomes ("True", "False", "None" or the name of the exception class).  *)
(* An optional value (x or None) is the set {} or {x}.                     *)
(* Time is counted in ticks of six hours.                                  *)
(***************************************************************************)
EXTENDS Integers, Sequences, FiniteSets, TLC

\* ---------------------------------------------------------------- bounds
\* the clock and the dates range over 0..MaxTime (ticks of six hours)
MaxTime == 5
\* days_early_for_beta ranges over 0..MaxHalfDays half-days (and None)
MaxHalfDays == 2
\* group ids range over 0..MaxGroup; a partition defines the groups 0..MaxGroup-1
MaxGroup == 2

\* ---------------------------------------------------------------- values
None == {}
Some(x) == {x}
TheValue(opt) == CHOOSE x \in opt : TRUE

Verdicts == {"True", "False", "None"}
Exceptions == {"ValueError", "IndexError", "TypeError"}
Outcomes == Verdicts \cup Exceptions

Py(b) == IF b THEN "True" ELSE "False"
IsRaised(r) == r \in Exceptions
Truthy(r) == r = "True"
\* Python's `a or b` and `a and b`: b is evaluated only when a does not decide,
\* and an exception raised by a operand is the outcome
PyOr(a, b) == IF IsRaised(a) \/ Truthy(a) THEN a ELSE b
PyAnd(a, b) == IF IsRaised(a) \/ ~Truthy(a) THEN a ELSE b

\* ---------------------------------------------------------------- keys
CourseKeyOf(org, course) == [kind |-> "CourseKey", org |-> org, course |-> course]
CourseC1 == CourseKeyOf("o1", "c1")
CourseC2 == CourseKeyOf("o2", "c2")
CourseKeys == {CourseC1, CourseC2}
\* a CCX key of course c1
CcxC1 == [kind |-> "CCXLocator", org |-> "o1", course |-> "c1", ccx |-> "x1"]
CcxKeys == {CcxC1}
NoneKey == [kind |-> "NoneType"]
to_course_locator(key) == CourseKeyOf(key.org, key.course)
UsageKeyOf(key) == [kind |-> "UsageKey", course_key |-> key]
Orgs == {"o1", "o2"}

\* ---------------------------------------------------------------- state
VARIABLES
    user,        \* the actor: [kind, is_staff]; kind is NoneType, AnonymousUser or User
    roles,       \* role directory of the actor: role kind -> set of scopes
    masquerade,  \* course keys in which the actor masquerades as a student
    features,    \* settings.FEATURES
    hostname,    \* get_current_request_hostname(): None or the labels of the host name
    now,         \* datetime.now(UTC())
    lookups,     \* answers of the other collaborators about the actor
    call         \* the call made and its outcome

vars == <<user, roles, masquerade, features, hostname, now, lookups, call>>

NoCall == [fn |-> "none"]

\* ---------------------------------------------------------------- collaborators
\* settings.PREVIEW_DOMAIN
PREVIEW_DOMAIN == "preview"

is_authenticated(u) == u.kind = "User"
is_anonymous(u) == u.kind = "AnonymousUser"

\* student.roles: GlobalStaff().has_user(user) is user.is_staff
GlobalStaff_has_user(u) == u.kind = "User" /\ u.is_staff

\* student.roles: <Role>(scope).has_user(user)
Role_has_user(kind, scope, u) == u.kind = "User" /\ scope \in roles[kind]

\* courseware.masquerade.is_masquerading_as_student
is_masquerading_as_student(u, course_key) == course_key \in masquerade

\* ---------------------------------------------------------------- role checks
\* _has_access_to_course without the global staff grant
_has_access_to_course_no_global(u, access_level, course_key) ==
    IF u.kind = "NoneType" \/ ~is_authenticated(u) THEN FALSE
    ELSE IF is_masquerading_as_student(u, course_key) THEN FALSE
    ELSE IF access_level \notin {"staff", "instructor"} THEN FALSE
    ELSE \/ /\ access_level = "staff"
            /\ \/ Role_has_user("course_staff", course_key, u)
               \/ Role_has_user("org_staff", course_key.org, u)
         \/ Role_has_user("course_instructor", course_key, u)
         \/ Role_has_user("org_instructor", course_key.org, u)

\* _has_access_to_course with the global staff grant tested before the masquerade
_has_access_to_course_global_first(u, access_level, course_key) ==
    IF u.kind = "NoneType" \/ ~is_authenticated(u) THEN FALSE
    ELSE IF GlobalStaff_has_user(u) THEN TRUE
    ELSE IF is_masquerading_as_student(u, course_key) THEN FALSE
    ELSE IF access_level \notin {"staff", "instructor"} THEN FALSE
    ELSE \/ /\ access_level = "staff"
            /\ \/ Role_has_user("course_staff", course_key, u)
               \/ Role_has_user("org_staff", course_key.org, u)
         \/ Role_has_user("course_instructor", course_key, u)
         \/ Role_has_user("org_instructor", course_key.org, u)

\* _has_access_to_course where the instructor roles grant the instructor level only
_has_access_to_course_instructor_only(u, access_level, course_key) ==
    IF u.kind = "NoneType" \/ ~is_authenticated(u) THEN FALSE
    ELSE IF is_masquerading_as_student(u, course_key) THEN FALSE
    ELSE IF GlobalStaff_has_user(u) THEN TRUE
    ELSE IF access_level \notin {"staff", "instructor"} THEN FALSE
    ELSE \/ /\ access_level = "staff"
            /\ \/ Role_has_user("course_staff", course_key, u)
               \/ Role_has_user("org_staff", course_key.org, u)
         \/ /\ access_level = "instructor"
            /\ \/ Role_has_user("course_instructor", course_key, u)
               \/ Role_has_user("org_instructor", course_key.org, u)

_has_access_to_course(u, access_level, course_key) ==
    IF u.kind = "NoneType" \/ ~is_authenticated(u) THEN FALSE
    ELSE IF is_masquerading_as_student(u, course_key) THEN FALSE
    ELSE IF GlobalStaff_has_user(u) THEN TRUE
    ELSE IF access_level \notin {"staff", "instructor"} THEN FALSE
    ELSE LET staff_access ==
                 \/ Role_has_user("course_staff", course_key, u)
                 \/ Role_has_user("org_staff", course_key.org, u)
             instructor_access ==
                 \/ Role_has_user("course_instructor", course_key, u)
                 \/ Role_has_user("org_instructor", course_key.org, u)
         IN IF staff_access /\ access_level = "staff" THEN TRUE
            ELSE IF instructor_access /\ access_level \in {"staff", "instructor"} THEN TRUE
            ELSE FALSE

_has_instructor_access_to_location(u, location, course_key) ==
    _has_access_to_course(u, "instructor",
        IF course_key = NoneKey THEN location.course_key ELSE course_key)

_has_staff_access_to_location(u, location, course_key) ==
    _has_access_to_course(u, "staff",
        IF course_key = NoneKey THEN location.course_key ELSE course_key)

_has_instructor_access_to_descriptor(u, descriptor, course_key) ==
    _has_instructor_access_to_location(u, descriptor.location, course_key)

_has_staff_access_to_descriptor(u, descriptor, course_key) ==
    _has_staff_access_to_location(u, descriptor.location, course_key)

\* ---------------------------------------------------------------- dates
in_preview_mode ==
    /\ hostname # None
    /\ TheValue(hostname) # <<"">>
    /\ \E i \in 1..Len(TheValue(hostname)) : TheValue(hostname)[i] = PREVIEW_DOMAIN

\* timedelta(days): the offset, given in half-days, as ticks of six hours
timedelta(halfdays) == 2 * halfdays

\* _adjust_start_date_for_beta_testers without the test of the beta tester role
_adjust_start_date_for_everybody(u, descriptor, course_key) ==
    IF descriptor.days_early_for_beta = None THEN [raised |-> FALSE, value |-> descriptor.start]
    ELSE IF descriptor.start = None THEN [raised |-> TRUE, value |-> None]
    ELSE [raised |-> FALSE,
          value |-> Some(TheValue(descriptor.start)
                         - timedelta(TheValue(descriptor.days_early_for_beta)))]

\* the outcome is an optional time, or "TypeError" when None - timedelta is evaluated
_adjust_start_date_for_beta_testers(u, descriptor, course_key) ==
    IF descriptor.days_early_for_beta = None THEN [raised |-> FALSE, value |-> descriptor.start]
    ELSE IF Role_has_user("beta_tester", course_key, u)
         THEN IF descriptor.start = None
              THEN [raised |-> TRUE, value |-> None]
              ELSE [raised |-> FALSE,
                    value |-> Some(TheValue(descriptor.start)
                                   - timedelta(TheValue(descriptor.days_early_for_beta)))]
         ELSE [raised |-> FALSE, value |-> descriptor.start]

_can_access_descriptor_with_start_date(u, descriptor, course_key) ==
    LET start_dates_disabled == features.DISABLE_START_DATES IN
    IF start_dates_disabled /\ ~is_masquerading_as_student(u, course_key) THEN "True"
    ELSE LET effective_start == _adjust_start_date_for_beta_testers(u, descriptor, course_key) IN
         IF effective_start.raised THEN "TypeError"
         ELSE Py(\/ descriptor.start = None
                 \/ now > TheValue(effective_start.value)
                 \/ in_preview_mode)

\* ---------------------------------------------------------------- group access
\* a directive of merged_group_access: None (no restriction), False (the merge
\* left no group: all students are excluded) or a list of group ids
NoneDirective == [tag |-> "None", ids |-> {}]
FalseDirective == [tag |-> "False", ids |-> {}]
ListDirective(ids) == [tag |-> "list", ids |-> ids]

\* xmodule.split_test_module: the partitions of the split_test mechanism
get_split_user_partitions(user_partitions) ==
    {p \in user_partitions : p.scheme = "random"}

\* descriptor._get_user_partition raises NoSuchUserPartitionError unless the
\* descriptor declares a partition of that id
NoSuchUserPartition(descriptor, partition_id) ==
    \A p \in descriptor.user_partitions : p.id # partition_id
_get_user_partition(descriptor, partition_id) ==
    CHOOSE p \in descriptor.user_partitions : p.id = partition_id

\* partition.get_group raises NoSuchUserPartitionGroupError unless the partition
\* has a group of that id
NoSuchUserPartitionGroup(partition, group_id) == group_id \notin partition.groups

\* partition.scheme.get_group_for_user: the actor's group in the partition, or None
get_group_for_user(course_key, u, partition) == lookups.user_group[partition.id]

\* the check for False in merged_access.values() without effect
excludes_all_students_unchecked(merged_access) == FALSE

\* False in merged_access.values()
excludes_all_students(merged_access) ==
    \E pid \in DOMAIN merged_access : merged_access[pid] = FalseDirective

\* the lookup of the groups with NoSuchUserPartitionGroupError passed over
group_lookup_raises_ignored(partitions, merged_access) == FALSE

\* partition.get_group raises for a group id of the directive of one of the partitions
group_lookup_raises(partitions, merged_access) ==
    \E partition \in partitions : \E group_id \in merged_access[partition.id].ids :
        NoSuchUserPartitionGroup(partition, group_id)

\* the final test with any in the place of all
has_satisfactory_groups_any(partition_groups, user_groups, merged_access) ==
    \E partition \in partition_groups :
        /\ user_groups[partition.id] # None
        /\ TheValue(user_groups[partition.id]) \in merged_access[partition.id].ids

\* all(user_groups.get(partition.id) in groups for partition, groups in partition_groups)
has_satisfactory_groups(partition_groups, user_groups, merged_access) ==
    \A partition \in partition_groups :
        /\ user_groups[partition.id] # None
        /\ TheValue(user_groups[partition.id]) \in merged_access[partition.id].ids

_has_group_access(descriptor, u, course_key) ==
    IF Cardinality(descriptor.user_partitions)
           = Cardinality(get_split_user_partitions(descriptor.user_partitions))
    THEN TRUE
    ELSE
    LET merged_access == descriptor.merged_group_access IN
    IF excludes_all_students(merged_access) THEN FALSE
    ELSE
    LET referenced == {pid \in DOMAIN merged_access : merged_access[pid] # NoneDirective} IN
    IF \E pid \in referenced : NoSuchUserPartition(descriptor, pid) THEN FALSE
    ELSE
    LET partitions == {_get_user_partition(descriptor, pid) : pid \in referenced} IN
    IF group_lookup_raises(partitions, merged_access) THEN FALSE
    ELSE
    LET partition_groups == {partition \in partitions : merged_access[partition.id].ids # {}}
        user_groups == [pid \in {partition.id : partition \in partition_groups} |->
                           get_group_for_user(course_key, u, _get_user_partition(descriptor, pid))]
    IN has_satisfactory_groups(partition_groups, user_groups, merged_access)

\* ---------------------------------------------------------------- dispatch
_dispatch(table, action, result) ==
    IF action \in table THEN result ELSE "ValueError"

\* ---------------------------------------------------------------- descriptors
DescriptorCheckers == {"load", "staff", "instructor"}

\* can_load of _has_access_descriptor
can_load(u, descriptor, course_key) ==
    PyOr(PyAnd(Py(~descriptor.visible_to_staff_only),
               PyAnd(Py(_has_group_access(descriptor, u, course_key)),
                     PyOr(Py("detached" \in descriptor.class_tags),
                          _can_access_descriptor_with_start_date(u, descriptor, course_key)))),
         Py(_has_staff_access_to_descriptor(u, descriptor, course_key)))

_has_access_descriptor(u, action, descriptor, course_key) ==
    _dispatch(DescriptorCheckers, action,
           CASE action = "load" -> can_load(u, descriptor, course_key)
             [] action = "staff" -> Py(_has_staff_access_to_descriptor(u, descriptor, course_key))
             [] action = "instructor" ->
                    Py(_has_instructor_access_to_descriptor(u, descriptor, course_key))
             [] OTHER -> "None")

ErrorDescCheckers == {"load", "staff", "instructor"}

_has_access_error_desc(u, action, descriptor, course_key) ==
    LET check_for_staff == Py(_has_staff_access_to_descriptor(u, descriptor, course_key))
    IN _dispatch(ErrorDescCheckers, action,
           CASE action = "load" -> check_for_staff
             [] action = "staff" -> check_for_staff
             [] action = "instructor" ->
                    Py(_has_instructor_access_to_descriptor(u, descriptor, course_key))
             [] OTHER -> "None")

\* ---------------------------------------------------------------- courses
CATALOG_VISIBILITY_CATALOG_AND_ABOUT == "both"
CATALOG_VISIBILITY_ABOUT == "about"

\* datetime.min and datetime.max lie outside the clock's range
datetime_min == 0 - 1
datetime_max == MaxTime + 1

\* student.auth.has_access(user, CourseBetaTesterRole(course_key))
auth_has_access_beta(u, course_key) == Role_has_user("beta_tester", course_key, u)

\* util.milestones_helpers
get_pre_requisite_courses_not_completed(u, course_id) == lookups.prerequisites_not_completed
any_unfulfilled_milestones(course_id, u) == lookups.unfulfilled_milestones

\* ExternalAuthMap.objects.filter(user=user, external_domain=domain) is not empty
ExternalAuthMap_matches(u, domain) == lookups.external_auth
\* CourseEnrollmentAllowed.objects.filter(email=user.email, course_id=course_id) is not empty
CourseEnrollmentAllowed_has(u, course_id) == course_id \in lookups.enrollment_allowed

is_mobile_available_for_user(u, descriptor) ==
    \/ descriptor.mobile_available
    \/ auth_has_access_beta(u, descriptor.id)
    \/ _has_staff_access_to_descriptor(u, descriptor, descriptor.id)

\* _can_load_course_on_mobile without the milestones test
_can_load_course_on_mobile_no_milestones(u, course) ==
    is_mobile_available_for_user(u, course)

_can_load_course_on_mobile(u, course) ==
    /\ is_mobile_available_for_user(u, course)
    /\ \/ _has_staff_access_to_descriptor(u, course, course.id)
       \/ ~any_unfulfilled_milestones(course.id, u)

_can_view_courseware_with_prerequisites(u, course) ==
    \/ ~features.ENABLE_PREREQUISITE_COURSES
    \/ _has_staff_access_to_descriptor(u, course, course.id)
    \/ course.pre_requisite_courses = {}
    \/ is_anonymous(u)
    \/ ~get_pre_requisite_courses_not_completed(u, course.id)

CourseDescCheckers ==
    {"load", "view_courseware_with_prerequisites", "load_mobile", "enroll", "see_exists",
     "staff", "instructor", "see_in_catalog", "see_about_page"}

\* can_load of _has_access_course_desc
course_can_load(u, course) == _has_access_descriptor(u, "load", course, course.id)

\* can_enroll with the window closed at both bounds
can_enroll_closed_window(u, course) ==
    LET reg_method_ok ==
            IF features.RESTRICT_ENROLL_BY_REG_METHOD /\ course.enrollment_domain # None
            THEN is_authenticated(u)
                 /\ ExternalAuthMap_matches(u, TheValue(course.enrollment_domain))
            ELSE TRUE
        start == IF course.enrollment_start = None THEN datetime_min
                 ELSE TheValue(course.enrollment_start)
        end == IF course.enrollment_end = None THEN datetime_max
               ELSE TheValue(course.enrollment_end)
    IN IF is_authenticated(u) /\ CourseEnrollmentAllowed_has(u, course.id) THEN "True"
       ELSE IF _has_staff_access_to_descriptor(u, course, course.id) THEN "True"
       ELSE IF course.invitation_only THEN "False"
       ELSE IF reg_method_ok /\ start <= now /\ now <= end THEN "True"
       ELSE "None"

\* can_enroll with the invitation-only test made first
can_enroll_invitation_first(u, course) ==
    LET reg_method_ok ==
            IF features.RESTRICT_ENROLL_BY_REG_METHOD /\ course.enrollment_domain # None
            THEN is_authenticated(u)
                 /\ ExternalAuthMap_matches(u, TheValue(course.enrollment_domain))
            ELSE TRUE
        start == IF course.enrollment_start = None THEN datetime_min
                 ELSE TheValue(course.enrollment_start)
        end == IF course.enrollment_end = None THEN datetime_max
               ELSE TheValue(course.enrollment_end)
    IN IF course.invitation_only THEN "False"
       ELSE IF is_authenticated(u) /\ CourseEnrollmentAllowed_has(u, course.id) THEN "True"
       ELSE IF _has_staff_access_to_descriptor(u, course, course.id) THEN "True"
       ELSE IF reg_method_ok /\ start < now /\ now < end THEN "True"
       ELSE "None"

\* can_enroll of _has_access_course_desc: the function ends without a return
\* statement, and returns None, when no test decided
can_enroll(u, course) ==
    LET reg_method_ok ==
            IF features.RESTRICT_ENROLL_BY_REG_METHOD /\ course.enrollment_domain # None
            THEN is_authenticated(u)
                 /\ ExternalAuthMap_matches(u, TheValue(course.enrollment_domain))
            ELSE TRUE
        start == IF course.enrollment_start = None THEN datetime_min
                 ELSE TheValue(course.enrollment_start)
        end == IF course.enrollment_end = None THEN datetime_max
               ELSE TheValue(course.enrollment_end)
    IN IF is_authenticated(u) /\ CourseEnrollmentAllowed_has(u, course.id) THEN "True"
       ELSE IF _has_staff_access_to_descriptor(u, course, course.id) THEN "True"
       ELSE IF course.invitation_only THEN "False"
       ELSE IF reg_method_ok /\ start < now /\ now < end THEN "True"
       ELSE "None"

\* see_exists granting only what may be both enrolled in and loaded
see_exists_enroll_and_load(u, course) ==
    IF features.ACCESS_REQUIRE_STAFF_FOR_COURSE
    THEN IF course.ispublic THEN "True"
         ELSE Py(_has_staff_access_to_descriptor(u, course, course.id))
    ELSE PyAnd(can_enroll(u, course), course_can_load(u, course))

\* see_exists of _has_access_course_desc
see_exists(u, course) ==
    IF features.ACCESS_REQUIRE_STAFF_FOR_COURSE
    THEN IF course.ispublic THEN "True"
         ELSE Py(_has_staff_access_to_descriptor(u, course, course.id))
    ELSE PyOr(can_enroll(u, course), course_can_load(u, course))

\* can_see_in_catalog satisfied with the visibility of the about page
can_see_in_catalog_or_about(u, course) ==
    \/ course.catalog_visibility = CATALOG_VISIBILITY_CATALOG_AND_ABOUT
    \/ course.catalog_visibility = CATALOG_VISIBILITY_ABOUT
    \/ _has_staff_access_to_descriptor(u, course, course.id)

\* can_see_in_catalog of _has_access_course_desc
can_see_in_catalog(u, course) ==
    \/ course.catalog_visibility = CATALOG_VISIBILITY_CATALOG_AND_ABOUT
    \/ _has_staff_access_to_descriptor(u, course, course.id)

\* can_see_about_page of _has_access_course_desc
can_see_about_page(u, course) ==
    \/ course.catalog_visibility = CATALOG_VISIBILITY_CATALOG_AND_ABOUT
    \/ course.catalog_visibility = CATALOG_VISIBILITY_ABOUT
    \/ _has_staff_access_to_descriptor(u, course, course.id)

_has_access_course_desc(u, action, course) ==
    _dispatch(CourseDescCheckers, action,
           CASE action = "load" -> course_can_load(u, course)
             [] action = "view_courseware_with_prerequisites" ->
                    Py(_can_view_courseware_with_prerequisites(u, course))
             [] action = "load_mobile" ->
                    PyAnd(course_can_load(u, course), Py(_can_load_course_on_mobile(u, course)))
             [] action = "enroll" -> can_enroll(u, course)
             [] action = "see_exists" -> see_exists(u, course)
             [] action = "staff" -> Py(_has_staff_access_to_descriptor(u, course, course.id))
             [] action = "instructor" ->
                    Py(_has_instructor_access_to_descriptor(u, course, course.id))
             [] action = "see_in_catalog" -> Py(can_see_in_catalog(u, course))
             [] action = "see_about_page" -> Py(can_see_about_page(u, course))
             [] OTHER -> "None")

\* ---------------------------------------------------------------- course overviews
_can_load_course_overview(u, course_overview) ==
    PyOr(PyAnd(Py(~course_overview.visible_to_staff_only),
               _can_access_descriptor_with_start_date(u, course_overview, course_overview.id)),
         Py(_has_staff_access_to_descriptor(u, course_overview, course_overview.id)))

_COURSE_OVERVIEW_CHECKERS == {"load", "load_mobile", "view_courseware_with_prerequisites"}

\* the message of the error for an unknown action, u"...'{1}'".format(action),
\* names a second argument that format is not given: format raises IndexError
UnknownOverviewActionError == "IndexError"

_has_access_course_overview(u, action, course_overview) ==
    IF action \in _COURSE_OVERVIEW_CHECKERS
    THEN CASE action = "load" -> _can_load_course_overview(u, course_overview)
           [] action = "load_mobile" ->
                  PyAnd(_can_load_course_overview(u, course_overview),
                        Py(_can_load_course_on_mobile(u, course_overview)))
           [] action = "view_courseware_with_prerequisites" ->
                  Py(_can_view_courseware_with_prerequisites(u, course_overview))
    ELSE UnknownOverviewActionError

\* ---------------------------------------------------------------- keys and strings
LocationCheckers == {"staff"}

_has_access_location(u, action, location, course_key) ==
    _dispatch(LocationCheckers, action,
        Py(_has_staff_access_to_location(u, location, course_key)))

CourseKeyCheckers == {"staff", "instructor"}

_has_access_course_key(u, action, course_key) ==
    _dispatch(CourseKeyCheckers, action,
        CASE action = "staff" -> Py(_has_access_to_course(u, "staff", course_key))
          [] action = "instructor" -> Py(_has_access_to_course(u, "instructor", course_key))
          [] OTHER -> "None")

_has_access_ccx_key(u, action, ccx_key) ==
    _has_access_course_key(u, action, to_course_locator(ccx_key))

StringCheckers == {"staff"}

_has_access_string(u, action, perm) ==
    LET check_staff == IF perm.value # "global" THEN "False" ELSE Py(GlobalStaff_has_user(u))
    IN _dispatch(StringCheckers, action, check_staff)

\* ---------------------------------------------------------------- has_access
AnonymousUser == [kind |-> "AnonymousUser", is_staff |-> FALSE]
NoneUser == [kind |-> "NoneType", is_staff |-> FALSE]

\* isinstance(obj, cls), by the class hierarchy
isinstance(obj, cls) ==
    CASE cls = "XBlock" ->
             obj.kind \in {"XBlock", "CourseDescriptor", "ErrorDescriptor"}
      [] cls = "CourseKey" -> obj.kind \in {"CourseKey", "CCXLocator"}
      [] OTHER -> obj.kind = cls

RECURSIVE has_access(_, _, _, _)

\* _has_access_xmodule forcing the descriptor through the generic-descriptor policy
_has_access_xmodule_generic(u, action, xmodule, course_key) ==
    _has_access_descriptor(u, action, xmodule.descriptor, course_key)

\* delegate to the descriptor, dispatched again by its own type
_has_access_xmodule(u, action, xmodule, course_key) ==
    has_access(u, action, xmodule.descriptor, course_key)

has_access(u0, action, obj, course_key0) ==
    LET u == IF u0.kind = "NoneType" THEN AnonymousUser ELSE u0
        course_key == IF isinstance(course_key0, "CCXLocator")
                      THEN to_course_locator(course_key0) ELSE course_key0
    IN
    IF isinstance(obj, "CourseDescriptor") THEN _has_access_course_desc(u, action, obj)
    ELSE IF isinstance(obj, "CourseOverview") THEN _has_access_course_overview(u, action, obj)
    ELSE IF isinstance(obj, "ErrorDescriptor")
         THEN _has_access_error_desc(u, action, obj, course_key)
    ELSE IF isinstance(obj, "XModule") THEN _has_access_xmodule(u, action, obj, course_key)
    ELSE IF isinstance(obj, "XBlock") THEN _has_access_descriptor(u, action, obj, course_key)
    ELSE IF isinstance(obj, "CCXLocator") THEN _has_access_ccx_key(u, action, obj)
    ELSE IF isinstance(obj, "CourseKey") THEN _has_access_course_key(u, action, obj)
    ELSE IF isinstance(obj, "UsageKey") THEN _has_access_location(u, action, obj, course_key)
    ELSE IF isinstance(obj, "basestring") THEN _has_access_string(u, action, obj)
    ELSE "TypeError"

\* ---------------------------------------------------------------- inputs
DefaultFeatures ==
    [DISABLE_START_DATES |-> FALSE, RESTRICT_ENROLL_BY_REG_METHOD |-> FALSE,
     ACCESS_REQUIRE_STAFF_FOR_COURSE |-> FALSE, ENABLE_PREREQUISITE_COURSES |-> FALSE]

PartitionIds == {0, 1}
GroupIds == 0..MaxGroup
\* the groups a partition defines: the group id MaxGroup is in no partition
PartitionGroups == 0..(MaxGroup - 1)

DefaultLookups ==
    [user_group |-> [pid \in PartitionIds |-> None], external_auth |-> FALSE,
     enrollment_allowed |-> {}, prerequisites_not_completed |-> FALSE,
     unfulfilled_milestones |-> FALSE]

NoRoles ==
    [course_staff |-> {}, org_staff |-> {}, course_instructor |-> {},
     org_instructor |-> {}, beta_tester |-> {}]

NoGroupAccess == [pid \in {} |-> NoneDirective]

\* a block of the given class in the given course, every field at its default
BlockOf(kind, key) ==
    [kind |-> kind, id |-> key, location |-> UsageKeyOf(key),
     visible_to_staff_only |-> FALSE, user_partitions |-> {},
     merged_group_access |-> NoGroupAccess, class_tags |-> {},
     start |-> None, days_early_for_beta |-> None,
     enrollment_start |-> None, enrollment_end |-> None, enrollment_domain |-> None,
     invitation_only |-> FALSE, ispublic |-> FALSE,
     catalog_visibility |-> CATALOG_VISIBILITY_CATALOG_AND_ABOUT,
     mobile_available |-> FALSE, pre_requisite_courses |-> {}]

XModuleOf(descriptor) == [kind |-> "XModule", descriptor |-> descriptor]
StringOf(value) == [kind |-> "basestring", value |-> value]

Users ==
    {NoneUser, AnonymousUser,
     [kind |-> "User", is_staff |-> FALSE], [kind |-> "User", is_staff |-> TRUE]}

Actions ==
    {"load", "load_forum", "load_mobile", "enroll", "see_exists", "staff", "instructor",
     "see_in_catalog", "see_about_page", "view_courseware_with_prerequisites", "bogus"}

Objects ==
    {BlockOf("CourseDescriptor", CourseC1), BlockOf("CourseDescriptor", CourseC2),
     BlockOf("CourseOverview", CourseC1), BlockOf("ErrorDescriptor", CourseC1),
     BlockOf("XBlock", CourseC1), BlockOf("XBlock", CourseC2),
     XModuleOf(BlockOf("CourseDescriptor", CourseC1)),
     XModuleOf(BlockOf("ErrorDescriptor", CourseC1)),
     XModuleOf(BlockOf("XBlock", CourseC1)),
     UsageKeyOf(CourseC1), UsageKeyOf(CourseC2),
     CourseC1, CourseC2, CcxC1,
     StringOf("global"), StringOf("other"),
     [kind |-> "int"]}

ScopeArgs == {NoneKey} \cup CourseKeys \cup CcxKeys

\* the role directories of an actor: only an authenticated user is given roles
RoleDirectories(u) ==
    IF u.kind # "User" THEN {NoRoles}
    ELSE [course_staff : SUBSET CourseKeys, org_staff : SUBSET Orgs,
          course_instructor : SUBSET CourseKeys, org_instructor : SUBSET Orgs,
          beta_tester : {{}}]

Masquerades(u) == IF u.kind # "User" THEN {{}} ELSE SUBSET CourseKeys

\* ---------------------------------------------------------------- has_access
Init ==
    /\ user \in Users
    /\ roles \in RoleDirectories(user)
    /\ masquerade \in Masquerades(user)
    /\ features = DefaultFeatures
    /\ hostname = None
    /\ now = 0
    /\ lookups = DefaultLookups
    /\ call = NoCall

HasAccess ==
    /\ call = NoCall
    /\ \E action \in Actions, obj \in Objects, course_key \in ScopeArgs :
           call' = [fn |-> "has_access", action |-> action, obj |-> obj,
                    course_key |-> course_key,
                    result |-> has_access(user, action, obj, course_key)]
    /\ UNCHANGED <<user, roles, masquerade, features, hostname, now, lookups>>

Next == HasAccess

Spec == Init /\ [][Next]_vars

\* ---------------------------------------------------------------- the claims' vocabulary
\* the class whose policy decides for obj: a module is decided by its descriptor
Decider(obj) == IF obj.kind = "XModule" THEN obj.descriptor ELSE obj

\* the actions the specification lists for each resource kind
ListedActions(obj) ==
    LET d == Decider(obj) IN
    CASE d.kind = "CourseDescriptor" ->
             {"load", "load_forum", "load_mobile", "enroll", "see_exists", "staff",
              "instructor", "see_in_catalog", "see_about_page",
              "view_courseware_with_prerequisites"}
      [] d.kind = "CourseOverview" -> {"load", "load_mobile", "view_courseware_with_prerequisites"}
      [] d.kind \in {"ErrorDescriptor", "XBlock"} -> {"load", "staff", "instructor"}
      [] d.kind \in {"UsageKey", "CourseKey", "CCXLocator"} -> {"staff", "instructor"}
      [] d.kind = "basestring" -> {"staff"}
      [] OTHER -> {}

IsResource(obj) == Decider(obj).kind # "int"

\* the actions the policy function of each resource kind has a checker for
ExposedActions(obj) ==
    LET d == Decider(obj) IN
    CASE d.kind = "CourseDescriptor" -> CourseDescCheckers
      [] d.kind = "CourseOverview" -> _COURSE_OVERVIEW_CHECKERS
      [] d.kind = "ErrorDescriptor" -> ErrorDescCheckers
      [] d.kind = "XBlock" -> DescriptorCheckers
      [] d.kind = "UsageKey" -> LocationCheckers
      [] d.kind \in {"CourseKey", "CCXLocator"} -> CourseKeyCheckers
      [] d.kind = "basestring" -> StringCheckers
      [] OTHER -> {}

\* the course a staff or instructor check of obj is made against: the course's
\* own id, the key itself, or the scope passed and else the location's course
ScopeChecked(obj, course_key) ==
    LET d == Decider(obj)
        scope == IF course_key.kind = "CCXLocator" THEN to_course_locator(course_key)
                 ELSE course_key
    IN CASE d.kind = "CourseDescriptor" -> d.id
         [] d.kind \in {"CourseKey", "CCXLocator"} -> to_course_locator(d)
         [] d.kind = "UsageKey" -> IF scope = NoneKey THEN d.course_key ELSE scope
         [] d.kind \in {"ErrorDescriptor", "XBlock"} ->
                IF scope = NoneKey THEN d.location.course_key ELSE scope
         [] OTHER -> NoneKey

Called(fn) == call.fn = fn

\* the scope passed is the course the check is made against (a string has no scope)
ScopePassedIsChecked(obj, course_key) ==
    \/ obj.kind = "basestring"
    \/ ScopeChecked(obj, course_key) = course_key

HoldsInstructorRole(scope) ==
    /\ user.kind = "User"
    /\ scope # NoneKey
    /\ \/ scope \in roles.course_instructor
       \/ scope.org \in roles.org_instructor

HoldsStaffRole(scope) ==
    /\ user.kind = "User"
    /\ scope # NoneKey
    /\ \/ scope \in roles.course_staff
       \/ scope.org \in roles.org_staff

\* ---------------------------------------------------------------- C1
\* C1: for every resource kind, has_access with an action that is not in the
\* kind's supported set fails with ValueError (UnknownAction) and with nothing else.
C1_UnknownActionIsValueError ==
    (Called("has_access") /\ IsResource(call.obj)
        /\ call.action \notin ListedActions(call.obj))
    => call.result = "ValueError"

\* ---------------------------------------------------------------- C2
\* C2: every action the specification lists for a resource kind is accepted:
\* has_access yields a verdict, not an error.
C2_ListedActionIsAccepted ==
    (Called("has_access") /\ call.action \in ListedActions(call.obj))
    => call.result \in Verdicts

\* ---------------------------------------------------------------- C3
\* C3 as stated: for a global staff actor has_access(actor, 'staff', resource, scope)
\* is true for every resource of a kind that exposes 'staff' (of the strings, the
\* resource 'global') and every scope.
C3_GlobalStaffAlwaysStaff ==
    (Called("has_access") /\ GlobalStaff_has_user(user) /\ call.action = "staff"
        /\ "staff" \in ListedActions(call.obj)
        /\ (call.obj.kind = "basestring" => call.obj.value = "global"))
    => call.result = "True"

\* C3 amended: for a global staff actor 'staff' is true on the string 'global', and
\* on every other resource kind that exposes 'staff' unless the actor masquerades
\* as a student in the course the check is made against; it is false on any other string.
C3_GlobalStaffUnlessMasquerading ==
    (Called("has_access") /\ GlobalStaff_has_user(user) /\ call.action = "staff"
        /\ "staff" \in ExposedActions(call.obj))
    => IF call.obj.kind = "basestring"
       THEN call.result = Py(call.obj.value = "global")
       ELSE call.result = Py(ScopeChecked(call.obj, call.course_key) \notin masquerade)

\* a global staff actor without any course or organisation role is granted
\* 'staff' on a block of c1 while masquerading as a student in c2
C3_Witness ==
    /\ Called("has_access") /\ GlobalStaff_has_user(user) /\ roles = NoRoles
    /\ call.action = "staff" /\ call.obj = BlockOf("XBlock", CourseC1)
    /\ call.course_key = NoneKey /\ masquerade = {CourseC2}
    /\ call.result = "True"

\* ---------------------------------------------------------------- C4
\* C4 as stated: for an actor masquerading as a student in the scope,
\* has_access(actor, 'staff' or 'instructor', resource, scope) is false for every
\* resource that gives a verdict, whatever roles the actor holds.
C4_MasqueradeDeniesInScope ==
    (Called("has_access") /\ call.action \in {"staff", "instructor"}
        /\ call.course_key \in masquerade
        /\ ScopePassedIsChecked(call.obj, call.course_key)
        /\ call.result \in Verdicts)
    => call.result = "False"

\* C4 amended: for an actor masquerading as a student in the course the check is
\* made against (the course's own id, the key itself, or the scope passed and else
\* the location's course), 'staff' and 'instructor' are false for every resource
\* kind that exposes the action, except a string, whose verdict does not depend
\* on the masquerade.
C4_MasqueradeDeniesInScopeChecked ==
    (Called("has_access") /\ call.action \in {"staff", "instructor"}
        /\ call.action \in ExposedActions(call.obj)
        /\ call.obj.kind # "basestring"
        /\ ScopeChecked(call.obj, call.course_key) \in masquerade)
    => call.result = "False"

\* a global staff actor who is also instructor of c1 is denied 'instructor' on the
\* course c1 while masquerading as a student in c1
C4_Witness ==
    /\ Called("has_access") /\ GlobalStaff_has_user(user)
    /\ CourseC1 \in roles.course_instructor /\ CourseC1 \in masquerade
    /\ call.action = "instructor" /\ call.obj = BlockOf("CourseDescriptor", CourseC1)
    /\ call.result = "False"

\* ---------------------------------------------------------------- C5
\* C5 as stated: whenever the actor holds the instructor role (of the course or
\* of its organisation) for a scope, has_access(actor, 'staff', resource, scope) is
\* true for every resource kind that exposes 'staff'.
C5_InstructorImpliesStaff ==
    (Called("has_access") /\ call.action = "staff"
        /\ "staff" \in ExposedActions(call.obj)
        /\ call.obj.kind # "basestring"
        /\ call.course_key \in CourseKeys /\ HoldsInstructorRole(call.course_key)
        /\ ScopePassedIsChecked(call.obj, call.course_key))
    => call.result = "True"

\* C5 amended: whenever the actor holds the instructor role for the course the check
\* is made against and does not masquerade as a student in it, 'staff' is true for
\* every resource kind that exposes 'staff' other than a string.
C5_InstructorImpliesStaffUnlessMasquerading ==
    (Called("has_access") /\ call.action = "staff"
        /\ "staff" \in ExposedActions(call.obj)
        /\ call.obj.kind # "basestring"
        /\ HoldsInstructorRole(ScopeChecked(call.obj, call.course_key))
        /\ ScopeChecked(call.obj, call.course_key) \notin masquerade)
    => call.result = "True"

\* an actor whose only role is instructor of the organisation of c1 is granted
\* 'staff' on a location of c1
C5_Witness ==
    /\ Called("has_access") /\ user = [kind |-> "User", is_staff |-> FALSE]
    /\ roles = [NoRoles EXCEPT !.org_instructor = {"o1"}]
    /\ masquerade = {}
    /\ call.action = "staff" /\ call.obj = UsageKeyOf(CourseC1)
    /\ call.course_key = NoneKey
    /\ call.result = "True"

\* ---------------------------------------------------------------- _has_group_access
AllPartitions == [id : PartitionIds, scheme : {"random", "cohort"}, groups : {PartitionGroups}]

\* the lists of partitions a block can declare: ids are not repeated
UserPartitionLists ==
    {ups \in SUBSET AllPartitions : \A p, q \in ups : p.id = q.id => p = q}

Directives == {NoneDirective, FalseDirective} \cup {ListDirective(ids) : ids \in SUBSET GroupIds}

MergedGroupAccesses == UNION {[D -> Directives] : D \in SUBSET PartitionIds}

UserGroups == [PartitionIds -> {None} \cup {Some(g) : g \in PartitionGroups}]

PlainUser == [kind |-> "User", is_staff |-> FALSE]

InitGroup ==
    /\ user = PlainUser
    /\ roles = NoRoles
    /\ masquerade = {}
    /\ features = DefaultFeatures
    /\ hostname = None
    /\ now = 0
    /\ lookups \in {[DefaultLookups EXCEPT !.user_group = ug] : ug \in UserGroups}
    /\ call = NoCall

HasGroupAccess ==
    /\ call = NoCall
    /\ \E ups \in UserPartitionLists, merged \in MergedGroupAccesses :
           LET descriptor == [BlockOf("XBlock", CourseC1) EXCEPT
                                  !.user_partitions = ups, !.merged_group_access = merged]
           IN call' = [fn |-> "_has_group_access", descriptor |-> descriptor,
                       course_key |-> CourseC1,
                       result |-> Py(_has_group_access(descriptor, user, CourseC1))]
    /\ UNCHANGED <<user, roles, masquerade, features, hostname, now, lookups>>

NextGroup == HasGroupAccess

SpecGroup == InitGroup /\ [][NextGroup]_vars

\* the split_test short-circuit applies: every declared partition is a split_test one
ShortCircuits(descriptor) ==
    \A p \in descriptor.user_partitions : p.scheme = "random"

Declares(descriptor, pid) == \E p \in descriptor.user_partitions : p.id = pid

\* every group id of the directive of pid is a group of the declared partition pid
GroupsResolve(descriptor, pid) ==
    \A p \in descriptor.user_partitions :
        p.id = pid => descriptor.merged_group_access[pid].ids \subseteq p.groups

\* ---------------------------------------------------------------- C6
\* C6 as stated: if the merged directives hold a partition whose group list is
\* explicitly empty (False: all students excluded), _has_group_access is false
\* whatever partitions the resource declares.
C6_ExcludedAlwaysDenied ==
    (Called("_has_group_access")
        /\ \E pid \in DOMAIN call.descriptor.merged_group_access :
               call.descriptor.merged_group_access[pid] = FalseDirective)
    => call.result = "False"

\* C6 amended: when the split_test short-circuit does not apply (the resource
\* declares a partition that is not a split_test one), a partition whose merged
\* group list is explicitly empty makes _has_group_access false.
C6_ExcludedDeniedUnlessShortCircuit ==
    (Called("_has_group_access")
        /\ ~ShortCircuits(call.descriptor)
        /\ \E pid \in DOMAIN call.descriptor.merged_group_access :
               call.descriptor.merged_group_access[pid] = FalseDirective)
    => call.result = "False"

\* the actor is in group 0 of the declared cohort partition 0, whose directive
\* allows group 0, and is denied because partition 1 excludes all students
C6_Witness ==
    /\ Called("_has_group_access")
    /\ Declares(call.descriptor, 0) /\ ~ShortCircuits(call.descriptor)
    /\ DOMAIN call.descriptor.merged_group_access = {0, 1}
    /\ call.descriptor.merged_group_access[0] = ListDirective({0})
    /\ call.descriptor.merged_group_access[1] = FalseDirective
    /\ lookups.user_group[0] = Some(0)
    /\ call.result = "False"

\* ---------------------------------------------------------------- C7
\* C7 as stated: if a partition id referenced by the merged directives (with a
\* directive other than None) does not resolve, or a group id of a resolved
\* partition's directive does not resolve, _has_group_access is false (and no
\* error reaches the caller).
C7_UnresolvedAlwaysDenied ==
    (Called("_has_group_access")
        /\ \E pid \in DOMAIN call.descriptor.merged_group_access :
               /\ call.descriptor.merged_group_access[pid] # NoneDirective
               /\ \/ ~Declares(call.descriptor, pid)
                  \/ ~GroupsResolve(call.descriptor, pid))
    => call.result = "False"

\* C7 amended: when the split_test short-circuit does not apply, if a partition id
\* whose merged directive is not None (no restriction) does not resolve, or a group
\* id of a resolved partition's directive does not resolve, _has_group_access is
\* false; no error reaches the caller.
C7_UnresolvedDeniedUnlessShortCircuit ==
    Called("_has_group_access") =>
        /\ call.result \in {"True", "False"}
        /\ (/\ ~ShortCircuits(call.descriptor)
            /\ \E pid \in DOMAIN call.descriptor.merged_group_access :
                   /\ call.descriptor.merged_group_access[pid] # NoneDirective
                   /\ \/ ~Declares(call.descriptor, pid)
                      \/ ~GroupsResolve(call.descriptor, pid))
           => call.result = "False"

\* the actor is in group 0 of the declared cohort partition 0, whose directive
\* names group 0 and a group the partition does not have: denied
C7_Witness ==
    /\ Called("_has_group_access")
    /\ Declares(call.descriptor, 0) /\ ~ShortCircuits(call.descriptor)
    /\ DOMAIN call.descriptor.merged_group_access = {0}
    /\ call.descriptor.merged_group_access[0] = ListDirective({0, MaxGroup})
    /\ lookups.user_group[0] = Some(0)
    /\ call.result = "False"

\* ---------------------------------------------------------------- C8
\* C8: when the split_test short-circuit does not apply, no directive is explicitly
\* empty and every referenced partition and group resolves, _has_group_access is
\* true iff for every partition whose directive names at least one group the
\* actor's group in the partition is one of the directive's groups.
C8_GroupAccessIffAllSatisfied ==
    (Called("_has_group_access")
        /\ ~ShortCircuits(call.descriptor)
        /\ \A pid \in DOMAIN call.descriptor.merged_group_access :
               /\ call.descriptor.merged_group_access[pid] # FalseDirective
               /\ Declares(call.descriptor, pid)
               /\ GroupsResolve(call.descriptor, pid))
    => (call.result = "True"
        <=> \A pid \in DOMAIN call.descriptor.merged_group_access :
                call.descriptor.merged_group_access[pid].ids # {}
                => \E g \in call.descriptor.merged_group_access[pid].ids :
                       lookups.user_group[pid] = Some(g))

\* two restricted partitions, the actor's group satisfies the first and the actor
\* has no group in the second: denied
C8_Witness ==
    /\ Called("_has_group_access")
    /\ Declares(call.descriptor, 0) /\ Declares(call.descriptor, 1)
    /\ ~ShortCircuits(call.descriptor)
    /\ DOMAIN call.descriptor.merged_group_access = {0, 1}
    /\ call.descriptor.merged_group_access[0] = ListDirective({0})
    /\ call.descriptor.merged_group_access[1] = ListDirective({0, 1})
    /\ lookups.user_group[0] = Some(0) /\ lookups.user_group[1] = None
    /\ call.result = "False"

\* ---------------------------------------------------------------- _can_access_descriptor_with_start_date
Times == 0..MaxTime
StartDates == {None} \cup {Some(t) : t \in Times}
DaysEarly == {None} \cup {Some(h) : h \in 0..MaxHalfDays}
Hostnames ==
    {None, Some(<<"">>), Some(<<"preview", "edx", "org">>),
     Some(<<"courses", "edx", "org">>)}

BetaDirectories(u) ==
    IF u.kind # "User" THEN {NoRoles}
    ELSE {[NoRoles EXCEPT !.beta_tester = b] : b \in SUBSET CourseKeys}

InitDate ==
    /\ user \in {AnonymousUser, PlainUser}
    /\ roles \in BetaDirectories(user)
    /\ masquerade \in Masquerades(user)
    /\ features \in {[DefaultFeatures EXCEPT !.DISABLE_START_DATES = d] : d \in BOOLEAN}
    /\ hostname \in Hostnames
    /\ now \in Times
    /\ lookups = DefaultLookups
    /\ call = NoCall

CanAccessDescriptorWithStartDate ==
    /\ call = NoCall
    /\ \E start \in StartDates, days \in DaysEarly, course_key \in CourseKeys \cup {NoneKey} :
           LET descriptor == [BlockOf("XBlock", CourseC1) EXCEPT
                                  !.start = start, !.days_early_for_beta = days]
           IN call' = [fn |-> "_can_access_descriptor_with_start_date",
                       descriptor |-> descriptor, course_key |-> course_key,
                       result |-> _can_access_descriptor_with_start_date(
                                      user, descriptor, course_key)]
    /\ UNCHANGED <<user, roles, masquerade, features, hostname, now, lookups>>

NextDate == CanAccessDescriptorWithStartDate

SpecDate == InitDate /\ [][NextDate]_vars

IsBetaTester(scope) == user.kind = "User" /\ scope \in roles.beta_tester

FromPreviewHost ==
    \E labels \in hostname : \E i \in 1..Len(labels) : labels[i] = "preview"

\* ---------------------------------------------------------------- C9
\* C9: a resource with no start date is visible by date for every actor, scope and
\* setting: _can_access_descriptor_with_start_date returns true and does not fail.
C9_NoStartDateAlwaysVisible ==
    (Called("_can_access_descriptor_with_start_date") /\ call.descriptor.start = None)
    => call.result = "True"

\* ---------------------------------------------------------------- C10
\* C10: for a resource with a start date the date check is true iff (start dates are
\* disabled and the actor does not masquerade as a student in the scope) or the
\* request comes from the preview host or now is strictly after the effective
\* start: start minus the beta offset for a beta tester of the scope when the
\* offset is not None, start otherwise.
C10_DateCheck ==
    (Called("_can_access_descriptor_with_start_date") /\ call.descriptor.start # None)
    => LET start == TheValue(call.descriptor.start)
           shifted == IsBetaTester(call.course_key)
                          /\ call.descriptor.days_early_for_beta # None
           \* a day is four ticks of six hours, the offset is given in half-days
           effective == IF shifted
                        THEN start - (4 * TheValue(call.descriptor.days_early_for_beta)) \div 2
                        ELSE start
       IN call.result =
              Py(\/ features.DISABLE_START_DATES /\ call.course_key \notin masquerade
                 \/ FromPreviewHost
                 \/ now > effective)

\* a beta tester of c1 sees, one tick before its start, a resource of c1 that
\* opens a day early for beta testers; start dates are enforced, no preview host
C10_Witness ==
    /\ Called("_can_access_descriptor_with_start_date")
    /\ IsBetaTester(CourseC1) /\ call.course_key = CourseC1
    /\ call.descriptor.start = Some(MaxTime) /\ now = MaxTime - 1
    /\ call.descriptor.days_early_for_beta = Some(2)
    /\ ~features.DISABLE_START_DATES /\ hostname = Some(<<"courses", "edx", "org">>)
    /\ call.result = "True"

\* ---------------------------------------------------------------- load
\* what the specification calls staff access to a scope: an authenticated actor who
\* does not masquerade as a student in it and is global staff or holds the staff or
\* the instructor role of the course or of its organisation
StaffAccess(scope) ==
    /\ user.kind = "User"
    /\ scope \notin masquerade
    /\ \/ user.is_staff
       \/ HoldsStaffRole(scope)
       \/ HoldsInstructorRole(scope)

\* the scope has_access passes on: a CCX key as the key of its course
ScopePassed(course_key) ==
    IF course_key.kind = "CCXLocator" THEN to_course_locator(course_key) ELSE course_key

\* what the specification calls visible by date, for the scope passed on
DateVisible(descriptor, scope) ==
    \/ descriptor.start = None
    \/ features.DISABLE_START_DATES /\ scope \notin masquerade
    \/ FromPreviewHost
    \/ now > (IF IsBetaTester(scope) /\ descriptor.days_early_for_beta # None
              THEN TheValue(descriptor.start)
                       - (4 * TheValue(descriptor.days_early_for_beta)) \div 2
              ELSE TheValue(descriptor.start))

CohortPartition0 == [id |-> 0, scheme |-> "cohort", groups |-> PartitionGroups]

\* the group access settings of the blocks loaded: no partition at all, the cohort
\* partition 0 restricted to group 0, the cohort partition 0 excluding all students
GroupSettings ==
    {[user_partitions |-> {}, merged_group_access |-> NoGroupAccess],
     [user_partitions |-> {CohortPartition0},
      merged_group_access |-> [pid \in {0} |-> ListDirective({0})]],
     [user_partitions |-> {CohortPartition0},
      merged_group_access |-> [pid \in {0} |-> FalseDirective]]}

\* the actor's group in partition 0 is group 0 or none
UserGroupsOfPartition0 ==
    {[pid \in PartitionIds |-> IF pid = 0 THEN g ELSE None] : g \in {None, Some(0)}}

\* the role directories over the course c1 of an authenticated actor
CourseC1Directories(u) ==
    IF u.kind # "User" THEN {NoRoles}
    ELSE [course_staff : SUBSET {CourseC1}, org_staff : {{}},
          course_instructor : {{}}, org_instructor : {{}},
          beta_tester : SUBSET {CourseC1}]

CourseC1Masquerades(u) == IF u.kind # "User" THEN {{}} ELSE SUBSET {CourseC1}

InitLoad ==
    /\ user \in {AnonymousUser, PlainUser}
    /\ roles \in CourseC1Directories(user)
    /\ masquerade \in CourseC1Masquerades(user)
    /\ features \in {[DefaultFeatures EXCEPT !.DISABLE_START_DATES = d] : d \in BOOLEAN}
    /\ hostname \in {None, Some(<<"preview", "edx", "org">>)}
    /\ now \in Times
    /\ lookups \in {[DefaultLookups EXCEPT !.user_group = ug] : ug \in UserGroupsOfPartition0}
    /\ call = NoCall

Load ==
    /\ call = NoCall
    /\ \E kind \in {"XBlock", "CourseDescriptor"}, staff_only \in BOOLEAN,
          tags \in {{}, {"detached"}}, start \in StartDates, days \in DaysEarly,
          groups \in GroupSettings, course_key \in {NoneKey, CourseC1} :
           LET obj == [BlockOf(kind, CourseC1) EXCEPT
                           !.visible_to_staff_only = staff_only, !.class_tags = tags,
                           !.start = start, !.days_early_for_beta = days,
                           !.user_partitions = groups.user_partitions,
                           !.merged_group_access = groups.merged_group_access]
           IN call' = [fn |-> "has_access", action |-> "load", obj |-> obj,
                       course_key |-> course_key,
                       result |-> has_access(user, "load", obj, course_key)]
    /\ UNCHANGED <<user, roles, masquerade, features, hostname, now, lookups>>

NextLoad == Load

SpecLoad == InitLoad /\ [][NextLoad]_vars

\* the scope the group and date checks of a load are made for: the course's own
\* id for a Course, the scope passed for a generic descriptor
LoadScope(obj, course_key) ==
    IF obj.kind = "CourseDescriptor" THEN obj.id ELSE ScopePassed(course_key)

\* ---------------------------------------------------------------- C11
\* C11: for a generic descriptor and for a Course, 'load' is true iff (the resource
\* is not visible to staff only and the actor has group access and (the resource is
\* tagged detached or is visible by date)) or the actor has staff access to the scope.
C11_LoadRule ==
    (Called("has_access") /\ call.action = "load"
        /\ call.obj.kind \in {"XBlock", "CourseDescriptor"})
    => call.result =
           Py(\/ /\ ~call.obj.visible_to_staff_only
                 /\ _has_group_access(call.obj, user, LoadScope(call.obj, call.course_key))
                 /\ \/ "detached" \in call.obj.class_tags
                    \/ DateVisible(call.obj, LoadScope(call.obj, call.course_key))
              \/ StaffAccess(ScopeChecked(call.obj, call.course_key)))

\* ---------------------------------------------------------------- course actions
GlobalStaffUser == [kind |-> "User", is_staff |-> TRUE]

\* enrollment_start and enrollment_end of the courses checked: none or a date
\* strictly inside the time range
EnrollmentDates == {None} \cup {Some(t) : t \in 1..(MaxTime - 2)}
EnrollmentDomains == {None, Some("shib:idp")}
\* catalog_visibility: the two values access.py tests for and the third one
CatalogVisibilities ==
    {CATALOG_VISIBILITY_CATALOG_AND_ABOUT, CATALOG_VISIBILITY_ABOUT, "none"}

InitCourse ==
    /\ user \in {AnonymousUser, PlainUser, GlobalStaffUser}
    /\ roles \in CourseC1Directories(user)
    /\ masquerade \in CourseC1Masquerades(user)
    /\ features \in {[DefaultFeatures EXCEPT !.RESTRICT_ENROLL_BY_REG_METHOD = r,
                                             !.ACCESS_REQUIRE_STAFF_FOR_COURSE = a] :
                         r \in BOOLEAN, a \in BOOLEAN}
    /\ hostname = None
    /\ now \in Times
    /\ lookups \in {[DefaultLookups EXCEPT !.external_auth = x, !.enrollment_allowed = e] :
                        x \in BOOLEAN, e \in SUBSET {CourseC1}}
    /\ call = NoCall

Enroll ==
    /\ call = NoCall
    /\ \E enrollment_start \in EnrollmentDates, enrollment_end \in EnrollmentDates,
          enrollment_domain \in EnrollmentDomains, invitation_only \in BOOLEAN :
           LET course == [BlockOf("CourseDescriptor", CourseC1) EXCEPT
                              !.enrollment_start = enrollment_start,
                              !.enrollment_end = enrollment_end,
                              !.enrollment_domain = enrollment_domain,
                              !.invitation_only = invitation_only]
           IN call' = [fn |-> "has_access", action |-> "enroll", obj |-> course,
                       course_key |-> NoneKey,
                       result |-> has_access(user, "enroll", course, NoneKey)]
    /\ UNCHANGED <<user, roles, masquerade, features, hostname, now, lookups>>

SeeExists ==
    /\ call = NoCall
    /\ \E enrollment_start \in {None, Some(MaxTime - 2)}, invitation_only \in BOOLEAN,
          ispublic \in BOOLEAN, start \in {None, Some(MaxTime - 3)},
          days \in {None, Some(0)} :
           LET course == [BlockOf("CourseDescriptor", CourseC1) EXCEPT
                              !.enrollment_start = enrollment_start,
                              !.invitation_only = invitation_only,
                              !.ispublic = ispublic, !.start = start,
                              !.days_early_for_beta = days]
           IN call' = [fn |-> "has_access", action |-> "see_exists", obj |-> course,
                       course_key |-> NoneKey,
                       result |-> has_access(user, "see_exists", course, NoneKey)]
    /\ UNCHANGED <<user, roles, masquerade, features, hostname, now, lookups>>

SeeCatalog ==
    /\ call = NoCall
    /\ \E action \in {"see_in_catalog", "see_about_page"},
          catalog_visibility \in CatalogVisibilities :
           LET course == [BlockOf("CourseDescriptor", CourseC1) EXCEPT
                              !.catalog_visibility = catalog_visibility]
           IN call' = [fn |-> "has_access", action |-> action, obj |-> course,
                       course_key |-> NoneKey,
                       result |-> has_access(user, action, course, NoneKey)]
    /\ UNCHANGED <<user, roles, masquerade, features, hostname, now, lookups>>

NextCourse == Enroll \/ SeeExists \/ SeeCatalog

SpecCourse == InitCourse /\ [][NextCourse]_vars

\* the actor has an enrollment-allowed record for their email and the course
HasAllowRecord(course) == user.kind = "User" /\ course.id \in lookups.enrollment_allowed

\* the registration-method restriction, when enabled and declared, is satisfied
RegMethodSatisfied(course) ==
    (features.RESTRICT_ENROLL_BY_REG_METHOD /\ course.enrollment_domain # None)
        => (user.kind = "User" /\ lookups.external_auth)

\* the bounds of the enrollment window, a missing bound standing for the start or
\* the end of all time
WindowStart(course) ==
    IF course.enrollment_start = None THEN 0 - 1 ELSE TheValue(course.enrollment_start)
WindowEnd(course) ==
    IF course.enrollment_end = None THEN MaxTime + 1 ELSE TheValue(course.enrollment_end)

EnrollChecked ==
    Called("has_access") /\ call.action = "enroll" /\ call.obj.kind = "CourseDescriptor"

\* the case of C12: no staff access, no allow record, not invitation-only
OrdinaryEnroll ==
    /\ EnrollChecked
    /\ ~StaffAccess(call.obj.id)
    /\ ~HasAllowRecord(call.obj)
    /\ ~call.obj.invitation_only

\* ---------------------------------------------------------------- C12
\* C12 as stated: for an actor without staff access and without an allow record, on
\* a course that is not invitation-only, 'enroll' is granted iff the
\* registration-method restriction is satisfied and
\* enrollment_start <= now <= enrollment_end (the closed window).
C12_EnrollIffInClosedWindow ==
    OrdinaryEnroll
    => (call.result = "True"
        <=> /\ RegMethodSatisfied(call.obj)
            /\ WindowStart(call.obj) <= now
            /\ now <= WindowEnd(call.obj))

\* C12 amended: in the same case 'enroll' is granted iff the registration-method
\* restriction is satisfied and enrollment_start < now < enrollment_end: at the
\* instant of either bound it is not granted.
C12_EnrollIffStrictlyInsideWindow ==
    OrdinaryEnroll
    => (call.result = "True"
        <=> /\ RegMethodSatisfied(call.obj)
            /\ WindowStart(call.obj) < now
            /\ now < WindowEnd(call.obj))

\* an ordinary enroll at the very instant enrollment opens, the registration-method
\* restriction satisfied: not granted
C12_Witness ==
    /\ OrdinaryEnroll
    /\ RegMethodSatisfied(call.obj)
    /\ call.obj.enrollment_start # None
    /\ now = WindowStart(call.obj)
    /\ now < WindowEnd(call.obj)
    /\ call.result = "None"

\* ---------------------------------------------------------------- C13
\* C13: an authenticated actor with an allow record is granted 'enroll' whatever the
\* invitation-only flag, the window and the registration-method restriction say; an
\* actor with staff access is granted 'enroll'; a non-staff actor without a record
\* is never granted 'enroll' on an invitation-only course (the verdict is false).
C13_EnrollOverrides ==
    EnrollChecked
    => /\ HasAllowRecord(call.obj) => call.result = "True"
       /\ StaffAccess(call.obj.id) => call.result = "True"
       /\ (~HasAllowRecord(call.obj) /\ ~StaffAccess(call.obj.id)
               /\ call.obj.invitation_only)
          => call.result = "False"

\* the allow record overrides an invitation-only course, a closed window and an
\* unsatisfied registration-method restriction at once, for a non-staff actor
C13_Witness ==
    /\ EnrollChecked
    /\ HasAllowRecord(call.obj)
    /\ ~StaffAccess(call.obj.id)
    /\ call.obj.invitation_only
    /\ ~RegMethodSatisfied(call.obj)
    /\ now > WindowEnd(call.obj)
    /\ call.result = "True"

\* ---------------------------------------------------------------- load_mobile
InitMobile ==
    /\ user \in {AnonymousUser, PlainUser, GlobalStaffUser}
    /\ roles \in CourseC1Directories(user)
    /\ masquerade \in CourseC1Masquerades(user)
    /\ features = DefaultFeatures
    /\ hostname = None
    /\ now \in Times
    /\ lookups \in {[DefaultLookups EXCEPT !.unfulfilled_milestones = m] : m \in BOOLEAN}
    /\ call = NoCall

LoadMobile ==
    /\ call = NoCall
    /\ \E kind \in {"CourseDescriptor", "CourseOverview"}, mobile_available \in BOOLEAN,
          staff_only \in BOOLEAN, start \in {None, Some(MaxTime - 3)},
          days \in {None, Some(0)} :
           LET course == [BlockOf(kind, CourseC1) EXCEPT
                              !.mobile_available = mobile_available,
                              !.visible_to_staff_only = staff_only,
                              !.start = start, !.days_early_for_beta = days]
           IN call' = [fn |-> "has_access", action |-> "load_mobile", obj |-> course,
                       course_key |-> NoneKey,
                       result |-> has_access(user, "load_mobile", course, NoneKey)]
    /\ UNCHANGED <<user, roles, masquerade, features, hostname, now, lookups>>

NextMobile == LoadMobile

SpecMobile == InitMobile /\ [][NextMobile]_vars

LoadMobileChecked ==
    /\ Called("has_access")
    /\ call.action = "load_mobile"
    /\ call.obj.kind \in {"CourseDescriptor", "CourseOverview"}

\* 'load' is granted to the same actor on the same course
LoadGranted(course) == has_access(user, "load", course, NoneKey) = "True"

\* the course is mobile-available for the actor
MobileAvailable(course) ==
    \/ course.mobile_available
    \/ IsBetaTester(course.id)
    \/ StaffAccess(course.id)

\* ---------------------------------------------------------------- C14
\* C14 as stated: for a Course and a CourseOverview, 'load_mobile' is granted iff
\* 'load' is granted and the course is mobile-available for the actor (mobile flag,
\* beta-tester role or staff access); nothing else influences the verdict.
C14_LoadMobileIffLoadAndAvailable ==
    LoadMobileChecked
    => (call.result = "True" <=> (LoadGranted(call.obj) /\ MobileAvailable(call.obj)))

\* C14 amended: 'load_mobile' is granted iff 'load' is granted, the course is
\* mobile-available for the actor, and the actor has staff access or has no
\* unfulfilled milestone in the course.
C14_LoadMobileIffLoadAvailableAndMilestones ==
    LoadMobileChecked
    => (call.result = "True"
        <=> /\ LoadGranted(call.obj)
            /\ MobileAvailable(call.obj)
            /\ \/ StaffAccess(call.obj.id)
               \/ ~lookups.unfulfilled_milestones)

\* a non-staff actor who may load a mobile-available course, with an unfulfilled
\* milestone: load_mobile is refused
C14_Witness ==
    /\ LoadMobileChecked
    /\ LoadGranted(call.obj)
    /\ MobileAvailable(call.obj)
    /\ ~StaffAccess(call.obj.id)
    /\ lookups.unfulfilled_milestones
    /\ call.result = "False"

\* ---------------------------------------------------------------- C15
SeeExistsChecked ==
    /\ Called("has_access")
    /\ call.action = "see_exists"
    /\ call.obj.kind = "CourseDescriptor"

\* the action is granted to the same actor on the same course
WouldBeGranted(action, course) == has_access(user, action, course, NoneKey) = "True"

\* C15: for a Course, with the require-staff-for-course-visibility flag enabled,
\* 'see_exists' is granted iff the course is public or the actor has staff access;
\* with the flag disabled it is granted iff 'enroll' or 'load' would be granted.
C15_SeeExistsRule ==
    SeeExistsChecked
    => (call.result = "True"
        <=> IF features.ACCESS_REQUIRE_STAFF_FOR_COURSE
            THEN call.obj.ispublic \/ StaffAccess(call.obj.id)
            ELSE \/ WouldBeGranted("enroll", call.obj)
                 \/ WouldBeGranted("load", call.obj))

\* flag disabled, enroll refused (invitation-only) but load granted: the course is
\* seen to exist
C15_Witness ==
    /\ SeeExistsChecked
    /\ ~features.ACCESS_REQUIRE_STAFF_FOR_COURSE
    /\ ~WouldBeGranted("enroll", call.obj)
    /\ WouldBeGranted("load", call.obj)
    /\ ~StaffAccess(call.obj.id)
    /\ call.result = "True"

\* ---------------------------------------------------------------- C16
CatalogChecked(action) ==
    /\ Called("has_access")
    /\ call.action = action
    /\ call.obj.kind = "CourseDescriptor"

\* C16: for a Course, 'see_about_page' is true iff the catalog visibility is 'about'
\* or 'catalog and about' or the actor has staff access; 'see_in_catalog' is true
\* iff the visibility is 'catalog and about' or the actor has staff access; so
\* whoever is granted 'see_in_catalog' is granted 'see_about_page'.
C16_CatalogRule ==
    /\ CatalogChecked("see_about_page")
       => call.result = Py(\/ call.obj.catalog_visibility \in {"about", "both"}
                           \/ StaffAccess(call.obj.id))
    /\ CatalogChecked("see_in_catalog")
       => /\ call.result = Py(\/ call.obj.catalog_visibility = "both"
                              \/ StaffAccess(call.obj.id))
          /\ call.result = "True" => WouldBeGranted("see_about_page", call.obj)

\* visibility 'about', a non-staff actor: no catalog entry, but the about page
C16_Witness ==
    /\ CatalogChecked("see_in_catalog")
    /\ call.obj.catalog_visibility = "about"
    /\ ~StaffAccess(call.obj.id)
    /\ call.result = "False"
    /\ WouldBeGranted("see_about_page", call.obj)

\* ---------------------------------------------------------------- C17
Errors == {"ValueError", "IndexError", "TypeError"}

\* C17: every call of has_access that does not raise returns a boolean, true or
\* false; a refused 'enroll' returns false.
C17_ReturnsBoolean ==
    (Called("has_access") /\ call.result \notin Errors)
    => call.result \in {"True", "False"}

\* ---------------------------------------------------------------- C18
ModuleChecked == Called("has_access") /\ call.obj.kind = "XModule"

\* C18: has_access on a Module gives exactly the outcome, verdict or error, of
\* has_access on the module's descriptor with the same actor, action and scope, the
\* descriptor being dispatched by its own kind.
C18_ModuleDelegatesToDescriptor ==
    ModuleChecked
    => call.result = has_access(user, call.action, call.obj.descriptor, call.course_key)

\* the module of a Course is granted an action that only the Course policy knows
C18_Witness ==
    /\ ModuleChecked
    /\ call.obj.descriptor.kind = "CourseDescriptor"
    /\ call.action = "see_exists"
    /\ call.result = "True"

====
